---- MODULE Spec2Model ----
(***************************************************************************)
(* State machine of salt/states/tomcat.py: the states war_deployed, wait,  *)
(* mod_watch and undeployed, run one pass at a time against a tomcat       *)
(* manager whose deployment map other processes may change between two of  *)
(* the pass's manager calls.                                               *)
(*                                                                         *)
(* Strings are sequences of pieces.  Version strings and the prefixes of   *)
(* the manager's replies are spelled character by character, so that       *)
(* startswith, endswith and equality are computed; fixed phrases of the    *)
(* reports are single pieces.                                              *)
(***************************************************************************)
EXTENDS Integers, Sequences, FiniteSets, TLC

\* Longest version string the model enumerates.
MaxVerLen == 2

\* ------------------------------------------------------------------ strings

VerChars == {"1", "x"}

Digits == {"1"}

Versions == UNION {[1..n -> VerChars] : n \in 0..MaxVerLen}

\* str.startswith
StartsWith(s, prefix) ==
    /\ Len(s) >= Len(prefix)
    /\ SubSeq(s, 1, Len(prefix)) = prefix

\* str.endswith
EndsWith(s, suffix) ==
    /\ Len(s) >= Len(suffix)
    /\ SubSeq(s, Len(s) - Len(suffix) + 1, Len(s)) = suffix

OK == <<"O", "K">>

FAIL == <<"F", "A", "I", "L">>

\* The replies a manager call can give: "OK...", "FAIL..." and a reply with
\* neither prefix.
Replies == { OK \o <<" - done">>,
             FAIL \o <<": disk full">>,
             <<"E", "r", "r", "o", "r">> }

\* ------------------------------------------------------------ the manager

\* The context path the passes are about.
Names == {"/app"}

Modes == {"running", "stopped"}

DeploymentRecord == [version : Versions, mode : Modes]

\* The artifacts: <name>.war, <name>-<version>.war, and a file whose suffix
\* after the dash is no version.
Wars == { <<"a", ".war">>,
          <<"a", "-", "1", ".war">>,
          <<"a", "-", "x", ".war">> }

\* The version argument of war_deployed: a string, '' by default, or the
\* boolean False.
Str(v) == [tag |-> "str", val |-> v]

False == [tag |-> "False", val |-> <<>>]

Overrides == { Str(<<>>), False, Str(<<"1">>), Str(<<"x">>) }

NoneValue == [some |-> FALSE, val |-> <<>>]

Some(v) == [some |-> TRUE, val |-> v]

RECURSIVE LastDash(_, _)
LastDash(s, i) ==
    IF i = 0 THEN 0
    ELSE IF s[i] = "-" THEN i
    ELSE LastDash(s, i - 1)

\* salt.modules.tomcat._extract_war_version: the version of a
\* <name>-<version>.<ext> file name, None when there is none.
extract_war_version(war) ==
    LET stem == IF Len(war) > 0 /\ war[Len(war)] = ".war"
                THEN SubSeq(war, 1, Len(war) - 1) ELSE war
        d    == LastDash(stem, Len(stem))
        v    == SubSeq(stem, d + 1, Len(stem))
    IN  IF d > 0 /\ Len(v) > 0 /\ \A i \in 1..Len(v) : v[i] \in Digits
        THEN Some(v) ELSE NoneValue

\* ------------------------------------------------------------------ state

VARIABLES
    tomcat,     \* the manager's deployment map: context path -> record
    managerUp,  \* whether the manager webapp answers
    test,       \* __opts__['test'], the dry-run flag
    pc,         \* position of the running pass
    fun,        \* the state function the pass runs
    args,       \* its arguments: name, war, force, version
    version,    \* war_deployed: the version after lines 119-123
    webapps,    \* the listing the pass read (lines 127 and 308)
    deploy,     \* war_deployed: local deploy
    undeploy,   \* war_deployed: local undeploy
    status,     \* war_deployed: local status
    ret,        \* the report under construction
    calls,      \* the manager calls of this pass, in order
    prev,       \* when this pass repeats the pass before it with the same
                \* arguments: the result of that pass, or "drifted" when
                \* another process changed the manager during it; "none"
                \* otherwise
    drifted,    \* another process changed the manager during this pass
    other       \* the latest step was a change by another process

vars == <<tomcat, managerUp, test, pc, fun, args, version, webapps, deploy,
          undeploy, status, ret, calls, prev, drifted, other>>

locals == <<version, webapps, deploy, undeploy, status>>

EmptyMap == [k \in {} |-> <<>>]

DeploymentMaps == UNION {[D -> DeploymentRecord] : D \in SUBSET Names}

NoArgs == [name |-> "/app", war |-> <<>>, force |-> FALSE,
           version |-> Str(<<>>)]

\* ret as "Prepare" builds it (lines 114-117, 297-300).
Prepare(name) ==
    [name |-> name, result |-> "True", changes |-> EmptyMap, comment |-> <<>>]

Init ==
    /\ tomcat \in DeploymentMaps
    /\ managerUp \in BOOLEAN
    /\ test \in BOOLEAN
    /\ pc = "idle"
    /\ fun = "none"
    /\ args = NoArgs
    /\ version = <<>>
    /\ webapps = EmptyMap
    /\ deploy = FALSE
    /\ undeploy = FALSE
    /\ status = TRUE
    /\ ret = Prepare("/app")
    /\ calls = <<>>
    /\ prev = "none"
    /\ drifted = FALSE
    /\ other = FALSE

\* ------------------------------------------------- the manager's behaviour

\* tomcat.ls: the deployment map; empty when the manager does not answer.
ls == IF managerUp THEN tomcat ELSE EmptyMap

\* The replies the manager can give to a call: it reports success only when
\* it answers and, except for a deploy, the context path is deployed.
ManagerReplies(op, name) ==
    { r \in Replies :
        StartsWith(r, OK) =>
            managerUp /\ (op = "deploy" \/ name \in DOMAIN tomcat) }

Without(map, name) == [k \in DOMAIN map \ {name} |-> map[k]]

With(map, name, rec) ==
    [k \in DOMAIN map \cup {name} |-> IF k = name THEN rec ELSE map[k]]

\* The deployment map after a call the manager answered with r: a call
\* takes effect exactly when its reply starts with OK.
ManagerAfter(op, name, v, r) ==
    IF ~StartsWith(r, OK) THEN tomcat
    ELSE IF op = "deploy"
         THEN With(tomcat, name, [version |-> v, mode |-> "running"])
    ELSE IF op = "undeploy" THEN Without(tomcat, name)
    ELSE IF op = "start"
         THEN With(tomcat, name, [tomcat[name] EXCEPT !.mode = "running"])
    ELSE tomcat

Call(op, reply) == [op |-> op, reply |-> reply]

\* ------------------------------------------------------------ war_deployed

\* 'version ' + version if version else 'no version'
VersionWords(v) ==
    IF v # <<>> THEN <<"version ">> \o v ELSE <<"no version">>

\* ResolveVersion as it was before False was told apart from '': every
\* empty value falls back on the file name.
ResolveVersionGuessesOnFalse(v, war) ==
    IF v.val = <<>>
    THEN LET found == extract_war_version(war)
         IN  IF found.some /\ found.val # <<>> THEN found.val ELSE <<>>
    ELSE v.val

\* Lines 119-123: the version war_deployed works with.
ResolveVersion(v, war) ==
    IF v.tag = "str" /\ v.val = <<>>
    THEN LET found == extract_war_version(war)
         IN  IF found.some /\ found.val # <<>> THEN found.val ELSE <<>>
    ELSE IF v.tag = "False" THEN <<>>
    ELSE v.val

\* Redeploy with the "not" of line 135 dropped.
RedeployNotNegated(observed, v, force) ==
    \/ EndsWith(observed, v)
    \/ observed # v
    \/ force

\* Redeploy without the "or force" of line 137.
RedeployIgnoresForce(observed, v, force) ==
    \/ ~EndsWith(observed, v)
    \/ observed # v

\* Redeploy without the inequality of line 136.
RedeploySuffixOnly(observed, v, force) ==
    \/ ~EndsWith(observed, v)
    \/ force

\* Lines 135-137: the test that sends a deployed context path to redeploy.
Redeploy(observed, v, force) ==
    \/ ~EndsWith(observed, v)
    \/ observed # v
    \/ force

\* Lines 140-146: the changes of a redeploy.
RedeployChanges(name, observed, v) ==
    ("undeploy" :> (<<"undeployed ", name, " with ">> \o VersionWords(observed)))
    @@ ("deploy" :> (<<"will deploy ", name, " with ">> \o VersionWords(v)))

\* Lines 149-150.
AlreadyDeployed(name, v) ==
    <<name, " with ">> \o VersionWords(v) \o <<" is already deployed">>

\* Lines 128-160, "Determine what to do": the locals and the report after
\* the try block, and whether line 155 returned.
Determine(listing, name, v, force) ==
    IF name \notin DOMAIN listing
    THEN \* except Exception (lines 156-160)
         [deploy |-> TRUE, undeploy |-> FALSE, status |-> TRUE,
          returned |-> FALSE,
          ret |-> [Prepare(name) EXCEPT
                     !.changes = "deploy" :>
                         (<<"deployed ", name, " with ">> \o VersionWords(v))]]
    ELSE IF Redeploy(listing[name].version, v, force)
    THEN [deploy |-> TRUE, undeploy |-> TRUE, status |-> TRUE,
          returned |-> FALSE,
          ret |-> [Prepare(name) EXCEPT
                     !.changes = RedeployChanges(name, listing[name].version, v)]]
    ELSE IF listing[name].mode # "running"
    THEN [deploy |-> FALSE, undeploy |-> FALSE, status |-> FALSE,
          returned |-> FALSE,
          ret |-> [Prepare(name) EXCEPT
                     !.comment = AlreadyDeployed(name, v),
                     !.changes = "start" :> <<"starting ", name>>]]
    ELSE [deploy |-> FALSE, undeploy |-> FALSE, status |-> TRUE,
          returned |-> TRUE,
          ret |-> [Prepare(name) EXCEPT !.comment = AlreadyDeployed(name, v)]]

\* TestReport without line 164.
TestReportKeepsResult(r) == r

\* Lines 162-165, "Test": the report of a dry run.
TestReport(r) == [r EXCEPT !.result = "None"]

\* Lines 167-191: the calls the locals stand for.
Plan(d, u, st) ==
    IF d THEN (IF u THEN <<"Undeploy", "Deploy">> ELSE <<"Deploy">>)
    ELSE IF ~st THEN <<"Start">>
    ELSE <<"Noop">>

\* Lines 113-173 up to the first call that changes the manager: resolve the
\* version, list the webapps, determine what to do, return at line 155, at
\* the test gate or at line 173, or go on to start, undeploy or deploy.
WarDeployedFrom(a) ==
    LET v == ResolveVersion(a.version, a.war)
        d == Determine(ls, a.name, v, a.force)
    IN  /\ fun' = "war_deployed"
        /\ args' = a
        /\ version' = v
        /\ webapps' = ls
        /\ deploy' = d.deploy
        /\ undeploy' = d.undeploy
        /\ status' = d.status
        /\ calls' = <<Call("ls", <<>>)>>
        /\ ret' = IF ~d.returned /\ test THEN TestReport(d.ret) ELSE d.ret
        /\ pc' = IF d.returned \/ test THEN "done"
                 ELSE IF ~d.deploy
                      THEN (IF ~d.status THEN "start" ELSE "done")
                 ELSE IF d.undeploy THEN "undeploy"
                 ELSE "deploy"
        /\ UNCHANGED <<tomcat, managerUp>>

\* The orchestrator runs war_deployed.
WarDeployed ==
    /\ pc = "idle"
    /\ \E a \in [name : Names, war : Wars, force : BOOLEAN, version : Overrides] :
          WarDeployedFrom(a)
    /\ prev' = "none"
    /\ drifted' = FALSE
    /\ other' = FALSE
    /\ UNCHANGED test

\* The orchestrator runs war_deployed again, with the arguments of the pass
\* that just returned or raised and before any other process changes the
\* manager again.
WarDeployedAgain ==
    /\ pc \in {"done", "raised"}
    /\ fun = "war_deployed"
    /\ WarDeployedFrom(args)
    /\ prev' = IF drifted THEN "drifted" ELSE ret.result
    /\ drifted' = FALSE
    /\ other' = FALSE
    /\ UNCHANGED test

\* StartReport that takes every reply but a FAIL for a success.
StartReportNotFail(r, reply) ==
    [r EXCEPT !.comment = reply,
              !.result = IF StartsWith(reply, FAIL) THEN "False" ELSE "True"]

\* Lines 170-172: the report after tomcat.start.
StartReport(r, reply) ==
    [r EXCEPT !.comment = reply,
              !.result = IF StartsWith(reply, OK) THEN "True" ELSE "False"]

\* Start that calls tomcat.start again until it replies OK.
StartRetries ==
    /\ pc = "start"
    /\ \E reply \in ManagerReplies("start", args.name) :
          /\ tomcat' = ManagerAfter("start", args.name, version, reply)
          /\ calls' = Append(calls, Call("start", reply))
          /\ ret' = StartReport(ret, reply)
          /\ pc' = IF StartsWith(reply, OK) THEN "done" ELSE "start"
    /\ other' = FALSE
    /\ UNCHANGED <<managerUp, test, fun, args, locals, prev, drifted>>

\* Lines 168-173: start the webapp that is deployed but not running.
Start ==
    /\ pc = "start"
    /\ \E reply \in ManagerReplies("start", args.name) :
          /\ tomcat' = ManagerAfter("start", args.name, version, reply)
          /\ calls' = Append(calls, Call("start", reply))
          /\ ret' = StartReport(ret, reply)
    /\ pc' = "done"
    /\ other' = FALSE
    /\ UNCHANGED <<managerUp, test, fun, args, locals, prev, drifted>>

\* UndeployFailed looking for a prefix the manager never sends.
UndeployFailedWrongPrefix(un) == StartsWith(un, FAIL \o <<"E", "D">>)

\* Line 178: the undeploy reply that ends the pass.
UndeployFailed(un) == StartsWith(un, FAIL)

\* FailureReport without line 179.
FailureReportKeepsResult(r, reply) == [r EXCEPT !.comment = reply]

\* Lines 179-180.
FailureReport(r, reply) == [r EXCEPT !.result = "False", !.comment = reply]

\* Lines 175-181.
Undeploy ==
    /\ pc = "undeploy"
    /\ \E un \in ManagerReplies("undeploy", args.name) :
          /\ tomcat' = ManagerAfter("undeploy", args.name, version, un)
          /\ calls' = Append(calls, Call("undeploy", un))
          /\ IF UndeployFailed(un)
             THEN ret' = FailureReport(ret, un) /\ pc' = "done"
             ELSE ret' = ret /\ pc' = "deploy"
    /\ other' = FALSE
    /\ UNCHANGED <<managerUp, test, fun, args, locals, prev, drifted>>

\* DeployFailedReport without the pop of line 202.
DeployFailedReportKeepsEntry(r, deploy_res) ==
    [r EXCEPT !.result = "False", !.comment = deploy_res]

\* Lines 199-202: the report of a deploy that did not reply OK.
DeployFailedReport(r, deploy_res) ==
    [r EXCEPT !.result = "False",
              !.comment = deploy_res,
              !.changes = Without(r.changes, "deploy")]

\* Lines 183-195 and 199-203: deploy the war; a reply that starts with OK
\* leads to the listing of line 196.
Deploy ==
    /\ pc = "deploy"
    /\ \E deploy_res \in ManagerReplies("deploy", args.name) :
          /\ tomcat' = ManagerAfter("deploy", args.name, version, deploy_res)
          /\ calls' = Append(calls, Call("deploy", deploy_res))
          /\ IF StartsWith(deploy_res, OK)
             THEN ret' = [ret EXCEPT !.result = "True"] /\ pc' = "requery"
             ELSE ret' = DeployFailedReport(ret, deploy_res) /\ pc' = "done"
    /\ other' = FALSE
    /\ UNCHANGED <<managerUp, test, fun, args, locals, prev, drifted>>

\* str() of a record of the listing.
StrRecord(rec) ==
    <<"{'version': '">> \o rec.version \o <<"', 'mode': '", rec.mode, "'}">>

\* Lines 196-198 and 203: list the webapps again for the comment; the
\* lookup of a context path that is no longer listed raises KeyError out of
\* war_deployed.
Requery ==
    /\ pc = "requery"
    /\ calls' = Append(calls, Call("ls", <<>>))
    /\ IF args.name \in DOMAIN ls
       THEN /\ ret' = [ret EXCEPT
                         !.comment = StrRecord(ls[args.name]),
                         !.changes = With(ret.changes, "deploy",
                             <<"deployed ", args.name, " in version ">> \o version)]
            /\ pc' = "done"
       ELSE /\ ret' = ret
            /\ pc' = "raised"
    /\ other' = FALSE
    /\ UNCHANGED <<tomcat, managerUp, test, fun, args, locals, prev, drifted>>

\* -------------------------------------------------------------------- wait

\* Lines 243-251.
WaitReport(name, result) ==
    [name |-> name,
     result |-> IF result THEN "True" ELSE "False",
     changes |-> EmptyMap,
     comment |-> IF result THEN <<"tomcat manager is ready">>
                 ELSE <<"tomcat manager is not ready">>]

OtherPass(f, name) ==
    /\ fun' = f
    /\ args' = [NoArgs EXCEPT !.name = name]
    /\ version' = <<>>
    /\ deploy' = FALSE
    /\ undeploy' = FALSE
    /\ status' = TRUE
    /\ prev' = "none"
    /\ drifted' = FALSE
    /\ other' = FALSE

Wait ==
    /\ pc = "idle"
    /\ \E name \in Names :
          /\ OtherPass("wait", name)
          /\ ret' = WaitReport(name, managerUp)
    /\ calls' = <<Call("status", <<>>)>>
    /\ pc' = "done"
    /\ UNCHANGED <<tomcat, managerUp, test, webapps>>

\* --------------------------------------------------------------- mod_watch

\* Lines 261-267.
WatchReport(name, msg) ==
    LET result == IF StartsWith(msg, OK) THEN "True" ELSE "False"
    IN  [name |-> name, result |-> result,
         changes |-> name :> result, comment |-> msg]

\* Lines 254-269: reload the webapp, whatever the dry-run flag.
ModWatch ==
    /\ pc = "idle"
    /\ \E name \in Names :
          /\ OtherPass("mod_watch", name)
          /\ \E msg \in ManagerReplies("reload", name) :
                /\ tomcat' = ManagerAfter("reload", name, <<>>, msg)
                /\ calls' = <<Call("reload", msg)>>
                /\ ret' = WatchReport(name, msg)
    /\ pc' = "done"
    /\ UNCHANGED <<managerUp, test, webapps>>

\* -------------------------------------------------------------- undeployed

\* NotResponding without line 304.
NotRespondingKeepsResult(r) ==
    [r EXCEPT !.comment = <<"Tomcat Manager does not response">>]

\* Lines 302-305: the report when tomcat.status is false.
NotResponding(r) ==
    [r EXCEPT !.comment = <<"Tomcat Manager does not response">>,
              !.result = "False"]

\* Lookup that reports a context path that is not listed as a failure.
LookupFailsWhenAbsent(r, listing, name) ==
    IF name \in DOMAIN listing
    THEN [r EXCEPT !.changes = "undeploy" :> listing[name].version]
    ELSE [r EXCEPT !.result = "False"]

\* Lines 307-311: the changes after the lookup; KeyError leaves ret as
\* prepared and returns it.
Lookup(r, listing, name) ==
    IF name \in DOMAIN listing
    THEN [r EXCEPT !.changes = "undeploy" :> listing[name].version]
    ELSE r

\* Lines 296-316: probe, list, look the context path up, return at the
\* probe, at KeyError or at the test gate, or go on to undeploy.
Undeployed ==
    /\ pc = "idle"
    /\ \E name \in Names :
          /\ OtherPass("undeployed", name)
          /\ IF ~managerUp
             THEN /\ ret' = NotResponding(Prepare(name))
                  /\ calls' = <<Call("status", <<>>)>>
                  /\ webapps' = webapps
                  /\ pc' = "done"
             ELSE /\ calls' = <<Call("status", <<>>), Call("ls", <<>>)>>
                  /\ webapps' = ls
                  /\ IF name \notin DOMAIN ls
                     THEN /\ ret' = Lookup(Prepare(name), ls, name)
                          /\ pc' = "done"
                     ELSE IF test
                     THEN /\ ret' = TestReport(Lookup(Prepare(name), ls, name))
                          /\ pc' = "done"
                     ELSE /\ ret' = Lookup(Prepare(name), ls, name)
                          /\ pc' = "undeployed_undeploy"
    /\ UNCHANGED <<tomcat, managerUp, test>>

\* Lines 318-324.
UndeployedUndeploy ==
    /\ pc = "undeployed_undeploy"
    /\ \E un \in ManagerReplies("undeploy", args.name) :
          /\ tomcat' = ManagerAfter("undeploy", args.name, <<>>, un)
          /\ calls' = Append(calls, Call("undeploy", un))
          /\ ret' = IF UndeployFailed(un) THEN FailureReport(ret, un) ELSE ret
    /\ pc' = "done"
    /\ other' = FALSE
    /\ UNCHANGED <<managerUp, test, fun, args, locals, prev, drifted>>

\* --------------------------------------------------------- other processes

\* The pass has returned its report, or raised: the orchestrator is free to
\* run the next one.
Return ==
    /\ pc \in {"done", "raised"}
    /\ pc' = "idle"
    /\ fun' = "none"
    /\ args' = NoArgs
    /\ version' = <<>>
    /\ webapps' = EmptyMap
    /\ deploy' = FALSE
    /\ undeploy' = FALSE
    /\ status' = TRUE
    /\ ret' = Prepare("/app")
    /\ calls' = <<>>
    /\ prev' = "none"
    /\ drifted' = FALSE
    /\ other' = FALSE
    /\ UNCHANGED <<tomcat, managerUp, test>>

\* A change by another process, between two passes or between two manager
\* calls of a pass.  Changes that follow one another with no step of the
\* pass in between amount to one change.
OtherProcess ==
    /\ pc \notin {"done", "raised"}
    /\ ~other
    /\ other' = TRUE
    /\ drifted' = (pc # "idle")
    /\ UNCHANGED <<managerUp, test, pc, fun, args, locals, ret, calls, prev>>

\* Another process undeploys the context path.
OtherUndeploys ==
    /\ \E name \in DOMAIN tomcat : tomcat' = Without(tomcat, name)
    /\ OtherProcess

\* Another process deploys, redeploys, starts or stops the context path.
OtherDeploys ==
    /\ \E name \in Names, rec \in DeploymentRecord :
          /\ tomcat' = With(tomcat, name, rec)
          /\ tomcat' # tomcat
    /\ OtherProcess

\* ------------------------------------------------------------ specification

Next ==
    \/ WarDeployed
    \/ WarDeployedAgain
    \/ Start
    \/ Undeploy
    \/ Deploy
    \/ Requery
    \/ Wait
    \/ ModWatch
    \/ Undeployed
    \/ UndeployedUndeploy
    \/ Return
    \/ OtherUndeploys
    \/ OtherDeploys

Spec == Init /\ [][Next]_vars

\* ------------------------------------------------------------------ claims

Mutations == {"deploy", "undeploy", "start", "reload"}

Issued(op) == \E i \in 1..Len(calls) : calls[i].op = op

NoMutation == \A i \in 1..Len(calls) : calls[i].op \notin Mutations

InWarDeployed == fun = "war_deployed"

ThePlan == Plan(deploy, undeploy, status)

\* The pass found nothing to do: no call but the listing, no changes, the
\* "already deployed" comment.
NoopPass ==
    /\ InWarDeployed
    /\ pc = "done"
    /\ ThePlan = <<"Noop">>
    /\ NoMutation
    /\ DOMAIN ret.changes = {}
    /\ ret.comment = AlreadyDeployed(args.name, version)

\* C1, as stated, for a first pass that returned result True: a war_deployed
\* pass that repeats the pass before it, same arguments and no change by
\* another process, is a Noop pass with the "already deployed" comment,
\* whatever the arguments (force included).
C1_IdempotenceForEverySpec == prev = "True" => NoopPass

\* C1, amended: with force false, a war_deployed pass that repeats a pass
\* that returned result True, same arguments and no change by another
\* process, is a Noop pass with the "already deployed" comment.
C1_IdempotenceAfterSuccess == (prev = "True" /\ ~args.force) => NoopPass

C1_Witness ==
    /\ prev = "True"
    /\ ~args.force
    /\ ~test
    /\ version = <<"1">>
    /\ NoopPass

\* C2, as stated: with force true the plan is Undeploy then Deploy, whether
\* the context path is listed or not.
C2_ForceDominanceAnyState ==
    (InWarDeployed /\ args.force) => ThePlan = <<"Undeploy", "Deploy">>

\* C2, amended: with force true and the context path in the listing, the
\* plan is Undeploy then Deploy, whatever the listed version and mode.
C2_ForceDominanceWhenListed ==
    (InWarDeployed /\ args.force /\ args.name \in DOMAIN webapps)
        => ThePlan = <<"Undeploy", "Deploy">>

C2_Witness ==
    /\ InWarDeployed
    /\ args.force
    /\ args.name \in DOMAIN webapps
    /\ webapps[args.name] = [version |-> version, mode |-> "running"]
    /\ ThePlan = <<"Undeploy", "Deploy">>

\* C3: under the dry-run flag no pass calls deploy, undeploy, start or
\* reload.
C3_DryRunPurity == test => NoMutation

Returned(f) == fun = f /\ pc = "done"

\* C4, as stated: under the dry-run flag the report of war_deployed and of
\* undeployed has result None, whatever the manager's state.
C4_DryRunResultAlwaysNone ==
    (test /\ (Returned("war_deployed") \/ Returned("undeployed")))
        => ret.result = "None"

Listed == args.name \in DOMAIN webapps

\* C4, amended: under the dry-run flag the report has result None exactly
\* when the pass found something to do.  war_deployed returns True when the
\* listed version is the desired one, force is false and the webapp runs,
\* None otherwise; undeployed returns False when the manager does not
\* respond, True when the context path is not listed, None otherwise.
C4_DryRunResult ==
    /\ (test /\ Returned("war_deployed")) =>
          ret.result =
              IF /\ Listed
                 /\ webapps[args.name].version = version
                 /\ ~args.force
                 /\ webapps[args.name].mode = "running"
              THEN "True" ELSE "None"
    /\ (test /\ Returned("undeployed")) =>
          ret.result =
              IF ~managerUp THEN "False"
              ELSE IF ~Listed THEN "True"
              ELSE "None"

C4_Witness ==
    /\ test
    /\ Returned("war_deployed")
    /\ Listed
    /\ webapps[args.name] = [version |-> version, mode |-> "stopped"]
    /\ ~args.force
    /\ ret.result = "None"
    /\ NoMutation

\* C5: in war_deployed, an undeploy reply that starts with FAIL ends the
\* pass: result False, the reply as the comment, and no deploy call.
C5_UndeployFailureHalts ==
    \A i \in 1..Len(calls) :
        (/\ InWarDeployed
         /\ calls[i].op = "undeploy"
         /\ StartsWith(calls[i].reply, FAIL))
        => /\ pc = "done"
           /\ i = Len(calls)
           /\ ~Issued("deploy")
           /\ ret.result = "False"
           /\ ret.comment = calls[i].reply

C5_Witness ==
    /\ InWarDeployed
    /\ ThePlan = <<"Undeploy", "Deploy">>
    /\ calls = <<Call("ls", <<>>), Call("undeploy", FAIL \o <<": disk full">>)>>
    /\ ret.result = "False"

LastCall == calls[Len(calls)]

\* C6: in war_deployed, a deploy reply that does not start with OK gives
\* result False, the reply as the comment and no "deploy" entry in changes,
\* after an undeploy or without one.
C6_DeployFailureReport ==
    (/\ InWarDeployed
     /\ Len(calls) > 0
     /\ LastCall.op = "deploy"
     /\ ~StartsWith(LastCall.reply, OK))
    => /\ pc = "done"
       /\ ret.result = "False"
       /\ ret.comment = LastCall.reply
       /\ "deploy" \notin DOMAIN ret.changes

C6_Witness ==
    /\ InWarDeployed
    /\ Len(calls) = 3
    /\ calls[2].op = "undeploy"
    /\ calls[3] = Call("deploy", FAIL \o <<": disk full">>)
    /\ ret.result = "False"
    /\ DOMAIN ret.changes = {"undeploy"}

\* C7: undeployed, having listed the webapps and not found the context path,
\* returns result True with empty changes and calls no undeploy.
C7_AlreadyAbsent ==
    (Returned("undeployed") /\ Issued("ls") /\ ~Listed)
        => /\ ret.result = "True"
           /\ DOMAIN ret.changes = {}
           /\ ~Issued("undeploy")

C7_Witness ==
    /\ Returned("undeployed")
    /\ Issued("ls")
    /\ ~Listed
    /\ ~test
    /\ ret.result = "True"

\* The report of undeployed for a context path that is not listed.
AlreadyAbsentReport == Lookup(Prepare(args.name), EmptyMap, args.name)

\* C8: when the manager does not respond, undeployed returns at once with
\* result False and the "does not response" comment, after the probe alone
\* (no listing, no undeploy), deployed or not, dry run or not; result and
\* comment both differ from those of the already-absent report.
C8_ReadinessGate ==
    (fun = "undeployed" /\ ~managerUp)
        => /\ pc = "done"
           /\ calls = <<Call("status", <<>>)>>
           /\ ret.result = "False"
           /\ ret.comment = <<"Tomcat Manager does not response">>
           /\ ret.result # AlreadyAbsentReport.result
           /\ ret.comment # AlreadyAbsentReport.comment

C8_Witness ==
    /\ Returned("undeployed")
    /\ ~managerUp
    /\ args.name \in DOMAIN tomcat
    /\ test
    /\ ret.result = "False"

\* C9: the version war_deployed works with is the one of the file name
\* ('' when it has none) when the argument is '', is '' when the argument
\* is False, and is the argument itself otherwise.
C9_VersionResolution ==
    InWarDeployed =>
        version =
            IF args.version = Str(<<>>)
            THEN (IF extract_war_version(args.war).some
                  THEN extract_war_version(args.war).val ELSE <<>>)
            ELSE IF args.version = False THEN <<>>
            ELSE args.version.val

C9_Witness ==
    /\ InWarDeployed
    /\ args.version = False
    /\ extract_war_version(args.war) = Some(<<"1">>)
    /\ version = <<>>

\* C10: for a listed context path the plan is Undeploy then Deploy exactly
\* when the listed version is not the desired version or force is true; the
\* endswith-and-equality test of lines 135-136 is plain inequality, so a
\* listed version that only ends with the desired one is redeployed and an
\* empty desired version matches an empty listed version alone.
C10_RedeployDecision ==
    /\ (InWarDeployed /\ Listed) =>
          (ThePlan = <<"Undeploy", "Deploy">>
              <=> (webapps[args.name].version # version \/ args.force))
    /\ (InWarDeployed /\ Listed) =>
          (Redeploy(webapps[args.name].version, version, FALSE)
              <=> webapps[args.name].version # version)

C10_Witness ==
    /\ InWarDeployed
    /\ Listed
    /\ webapps[args.name].version = <<"x", "1">>
    /\ version = <<"1">>
    /\ ~args.force
    /\ ThePlan = <<"Undeploy", "Deploy">>

\* C11: in a war_deployed pass, a deploy call for a context path that the
\* listing of line 127 holds comes after an undeploy call of the same pass
\* whose reply does not start with FAIL; a deploy call that no undeploy
\* call precedes is for a context path the listing does not hold.
C11_UndeployBeforeDeploy ==
    \A i \in 1..Len(calls) :
        (InWarDeployed /\ calls[i].op = "deploy") =>
            /\ ~test
            /\ Listed =>
                  \E j \in 1..(i - 1) :
                      /\ calls[j].op = "undeploy"
                      /\ ~StartsWith(calls[j].reply, FAIL)
            /\ (\A j \in 1..(i - 1) : calls[j].op # "undeploy") => ~Listed

C11_Witness ==
    /\ InWarDeployed
    /\ Listed
    /\ Len(calls) >= 3
    /\ calls[2] = Call("undeploy", OK \o <<" - done">>)
    /\ calls[3].op = "deploy"

\* The listing holds the context path with the desired version.
Matches == Listed /\ webapps[args.name].version = version

\* C12: outside a dry run, with the desired version listed, not running,
\* and force false, war_deployed calls start once and neither undeploy nor
\* deploy; the result is True exactly when the start reply starts with OK
\* and the comment is that reply.
C12_StartStopped ==
    (/\ InWarDeployed
     /\ ~test
     /\ Matches
     /\ webapps[args.name].mode # "running"
     /\ ~args.force)
    => /\ pc \in {"start", "done"}
       /\ pc = "start" => calls = <<Call("ls", <<>>)>>
       /\ pc = "done" =>
             /\ Len(calls) = 2
             /\ calls[1].op = "ls"
             /\ calls[2].op = "start"
             /\ ret.result = "True" <=> StartsWith(calls[2].reply, OK)
             /\ ret.result \in {"True", "False"}
             /\ ret.comment = calls[2].reply

C12_Witness ==
    /\ InWarDeployed
    /\ ~test
    /\ Matches
    /\ webapps[args.name].mode = "stopped"
    /\ ~args.force
    /\ pc = "done"
    /\ calls[2] = Call("start", <<"E", "r", "r", "o", "r">>)
    /\ ret.result = "False"

\* C13: with the desired version listed, running, and force false,
\* war_deployed makes no call but the listing, leaves the manager's
\* deployment map as listed, and returns empty changes with the "already
\* deployed" comment.
C13_NoopFrame ==
    (/\ InWarDeployed
     /\ Matches
     /\ webapps[args.name].mode = "running"
     /\ ~args.force)
    => /\ pc = "done"
       /\ calls = <<Call("ls", <<>>)>>
       /\ tomcat = webapps
       /\ ret.result = "True"
       /\ DOMAIN ret.changes = {}
       /\ ret.comment = AlreadyDeployed(args.name, version)

C13_Witness ==
    /\ InWarDeployed
    /\ Matches
    /\ webapps[args.name] = [version |-> <<"1">>, mode |-> "running"]
    /\ ~args.force
    /\ ~test
    /\ pc = "done"
    /\ ret.comment = <<"/app", " with ", "version ", "1", " is already deployed">>

Once == Mutations \cup {"status"}

\* C14: in a pass, undeploy, deploy, start, reload and the readiness probe
\* are each called at most once, and no call that changes the manager
\* follows a reply that starts with FAIL or a probe that found the manager
\* not responding.
C14_NoRetries ==
    \A i \in 1..Len(calls), j \in 1..Len(calls) :
        i < j =>
            /\ calls[i].op \in Once => calls[j].op # calls[i].op
            /\ StartsWith(calls[i].reply, FAIL) => calls[j].op \notin Mutations
            /\ (calls[i].op = "status" /\ ~managerUp)
                  => calls[j].op \notin Mutations

C14_Witness ==
    /\ InWarDeployed
    /\ pc = "done"
    /\ Len(calls) = 3
    /\ calls[2].op = "undeploy"
    /\ ~StartsWith(calls[2].reply, FAIL)
    /\ calls[3] = Call("deploy", FAIL \o <<": disk full">>)

\* Every call of the pass that changes the manager replied OK.
AllOK ==
    \A i \in 1..Len(calls) :
        calls[i].op \in Mutations => StartsWith(calls[i].reply, OK)

Converged ==
    /\ args.name \in DOMAIN tomcat
    /\ tomcat[args.name] = [version |-> version, mode |-> "running"]

\* C15: after a war_deployed pass during which another process changed the
\* deployment, the next war_deployed pass with the same arguments, force
\* false, no dry run, no further change by another process and every
\* manager call replying OK leaves the context path deployed with the
\* desired version and running.
C15_ConvergenceAfterDrift ==
    (/\ InWarDeployed
     /\ prev = "drifted"
     /\ ~test
     /\ ~args.force
     /\ ~drifted
     /\ pc \in {"done", "raised"}
     /\ AllOK)
    => /\ pc = "done"
       /\ ret.result = "True"
       /\ Converged

\* The pass before left the context path undeployed or with another
\* version, and this one redeployed it.
C15_Witness ==
    /\ InWarDeployed
    /\ prev = "drifted"
    /\ ~test
    /\ ~args.force
    /\ ~drifted
    /\ pc = "done"
    /\ AllOK
    /\ Listed
    /\ webapps[args.name].version # version
    /\ Issued("undeploy")
    /\ Issued("deploy")
    /\ Converged

\* Every reply of the pass starts with OK or with FAIL.
OnlyOKOrFAIL ==
    \A i \in 1..Len(calls) :
        calls[i].op \in Mutations =>
            StartsWith(calls[i].reply, OK) \/ StartsWith(calls[i].reply, FAIL)

AnyFAIL ==
    \E i \in 1..Len(calls) :
        calls[i].op \in Mutations /\ StartsWith(calls[i].reply, FAIL)

\* C16: a war_deployed pass outside a dry run whose replies all start with
\* OK or FAIL returns result True exactly when none of its undeploy, deploy
\* and start calls replied FAIL.
C16_ResultSoundness ==
    (Returned("war_deployed") /\ ~test /\ OnlyOKOrFAIL)
        => /\ ret.result \in {"True", "False"}
           /\ ret.result = "True" <=> ~AnyFAIL

C16_Witness ==
    /\ Returned("war_deployed")
    /\ ~test
    /\ OnlyOKOrFAIL
    /\ Len(calls) = 2
    /\ calls[2] = Call("undeploy", FAIL \o <<": disk full">>)
    /\ ret.result = "False"

\* The call of the pass that stands behind an entry of changes: a call of
\* that name whose reply does not start with FAIL.
Completed(label) ==
    \E i \in 1..Len(calls) :
        calls[i].op = label /\ ~StartsWith(calls[i].reply, FAIL)

\* C17: a war_deployed or undeployed pass outside a dry run that returns
\* result False has in changes only entries of calls that were made and
\* did not fail.
C17_ChangesOnlyCompleted ==
    (/\ Returned("war_deployed") \/ Returned("undeployed")
     /\ ~test
     /\ ret.result = "False")
    => \A label \in DOMAIN ret.changes : Completed(label)

\* C18: a war_deployed pass never ends without a report.
C18_ReportAlwaysReturned == InWarDeployed => pc # "raised"

====
